---- MODULE Spec2Model ----
(***************************************************************************)
(* Fraud dashboard (app.py): the loader/normaliser load_data and the six   *)
(* query functions built on it, over a CSV file that other programs append *)
(* to.                                                                     *)
(*                                                                         *)
(* Encodings.                                                              *)
(*  - Time is counted in minutes; a date of birth is a minute too.         *)
(*  - A raw CSV cell is text.  The cells of is_fraud, merch_lat and        *)
(*    merch_long are tuples of one-character strings, so that the digit    *)
(*    extraction and safe_float work on the characters.  A cell of         *)
(*    local_timestamp or dob is <<"ts", m>> (text that pandas parses to    *)
(*    minute m) or <<"junk", k>> (text that does not parse).  The cells of *)
(*    category, state and merchant are strings.                            *)
(*  - A parsed value is <<"val", v>>, <<"nan", 0>> (NaT / NaN) or          *)
(*    <<"none", 0>> (Python None in an object column).                     *)
(*  - A percentage is an integer number of hundredths (25.0 is 2500).      *)
(*  - A float coordinate is an integer number of thousandths.              *)
(***************************************************************************)
EXTENDS Integers, Sequences, FiniteSets, TLC

VARIABLES
    file,    \* the dataset at CSV_PATH: [status, header, rows]
    now,     \* the wall clock, in minutes
    pc,      \* pc[p]: "idle" | "loaded" | "done", the position of request p
    req,     \* req[p]: [q, arg], the query request p runs
    df,      \* df[p]: the DataFrame request p's load_data returned
    res,     \* res[p]: what the query returned (or raised)
    hist,    \* hist[p]: history, [seen, tload, tcomp]: how many appends were complete
             \* at p's load, and the clock at its load and at its computation
    log      \* history: [init, appended], the first file and the rows appended since

vars == <<file, now, pc, req, df, res, hist, log>>

----------------------------------------------------------------------------
(* Bounds of the model *)

MaxRows == 2
MaxTicks == 1
MaxAppends == 1

(* Program constants *)

DefaultHours == 2
RatioWindowMinutes == 5
DefaultN == 5
YearDays == 365

MinutesPerHour == 60
MinutesPerDay == 24 * 60

Procs == {1, 2}

----------------------------------------------------------------------------
(* Small helpers *)

Min(a, b) == IF a <= b THEN a ELSE b
Max(a, b) == IF a >= b THEN a ELSE b
Range(s) == {s[i] : i \in DOMAIN s}

RECURSIVE SumSeq(_)
SumSeq(s) == IF s = <<>> THEN 0 ELSE s[1] + SumSeq(Tail(s))

(* all sequences over S of length at most n *)
SeqsUpTo(S, n) == UNION {[1..k -> S] : k \in 0..n}

(* the orderings of a finite set: the injective sequences that cover it *)
Perms(S) ==
    {s \in [1..Cardinality(S) -> S] : \A i, j \in DOMAIN s : i # j => s[i] # s[j]}

----------------------------------------------------------------------------
(* Parsed values *)

Val(v) == <<"val", v>>
NaN == <<"nan", 0>>
None == <<"none", 0>>
notna(x) == x[1] = "val"

(* EXPECTED_COLS, app.py:9-15 *)
EXPECTED_COLS ==
    << "transaction_id", "ssn", "cc_num", "first_name", "last_name", "gender",
       "street", "city", "state", "zip", "home_lat", "home_long", "city_population",
       "job", "dob", "account_number", "trans_num", "trans_date", "trans_time",
       "unix_time", "category", "amt", "merchant", "merch_lat", "merch_long",
       "is_fraud", "local_timestamp" >>

----------------------------------------------------------------------------
(* Text to number *)

Digits == {"0", "1", "2", "3", "4", "5", "6", "7", "8", "9"}

DigitVal(c) ==
    CASE c = "0" -> 0 [] c = "1" -> 1 [] c = "2" -> 2 [] c = "3" -> 3
      [] c = "4" -> 4 [] c = "5" -> 5 [] c = "6" -> 6 [] c = "7" -> 7
      [] c = "8" -> 8 [] c = "9" -> 9

(* int() of a run of digits *)
RECURSIVE DigitsToInt(_)
DigitsToInt(s) ==
    IF s = <<>> THEN 0
    ELSE 10 * DigitsToInt(SubSeq(s, 1, Len(s) - 1)) + DigitVal(s[Len(s)])

(* every digit of s, as re.sub(r'\D', '', s) would leave them *)
AllDigitsOf(s) == SelectSeq(s, LAMBDA c : c \in Digits)

(* the longest prefix of s made of digits *)
RECURSIVE DigitPrefix(_)
DigitPrefix(s) ==
    IF s = <<>> \/ s[1] \notin Digits THEN <<>>
    ELSE <<s[1]>> \o DigitPrefix(Tail(s))

(* str.extract(r'(\d+)')[0]: the first run of digits of s, <<>> when s has none *)
RECURSIVE ExtractDigits(_)
ExtractDigits(s) ==
    IF s = <<>> THEN <<>>
    ELSE IF s[1] \in Digits THEN DigitPrefix(s)
    ELSE ExtractDigits(Tail(s))

(* app.py:38-39: to_numeric(extract(...), errors='coerce').fillna(0).astype(int) *)
NormalizeFraud(raw) ==
    LET run == ExtractDigits(raw)
    IN  IF run = <<>> THEN 0 ELSE DigitsToInt(run)

(* str.strip() *)
RECURSIVE LStrip(_)
LStrip(s) == IF s # <<>> /\ s[1] = " " THEN LStrip(Tail(s)) ELSE s
RECURSIVE RStrip(_)
RStrip(s) ==
    IF s # <<>> /\ s[Len(s)] = " " THEN RStrip(SubSeq(s, 1, Len(s) - 1)) ELSE s
Strip(s) == RStrip(LStrip(s))

(* str.replace(',', '.') *)
ReplaceComma(s) == [i \in DOMAIN s |-> IF s[i] = "," THEN "." ELSE s[i]]

(* the position of the first "." of s, 0 when there is none *)
RECURSIVE DotAt(_, _)
DotAt(s, i) ==
    IF i > Len(s) THEN 0 ELSE IF s[i] = "." THEN i ELSE DotAt(s, i + 1)

AllDigits(s) == \A i \in DOMAIN s : s[i] \in Digits

(* a fraction of up to three digits, in thousandths *)
FracThousandths(f) ==
    DigitsToInt(f) * (CASE Len(f) = 0 -> 0 [] Len(f) = 1 -> 100
                        [] Len(f) = 2 -> 10 [] OTHER -> 1)

(* float() on plain decimal text "[-]ddd[.ddd]" (at most three decimals),    *)
(* the value in thousandths; anything else raises ValueError in the model's *)
(* alphabet (letters, a second dot, the empty string).                      *)
ParseFloat(s) ==
    LET neg == s # <<>> /\ s[1] = "-"
        body == IF neg THEN Tail(s) ELSE s
        dot == DotAt(body, 1)
        ip == IF dot = 0 THEN body ELSE SubSeq(body, 1, dot - 1)
        fp == IF dot = 0 THEN <<>> ELSE SubSeq(body, dot + 1, Len(body))
        ok == /\ AllDigits(ip) /\ AllDigits(fp) /\ Len(ip) + Len(fp) > 0
              /\ Len(fp) <= 3
        mag == 1000 * DigitsToInt(ip) + FracThousandths(fp)
    IN  IF ok THEN Val(IF neg THEN 0 - mag ELSE mag) ELSE NaN

(* safe_float, app.py:17-24: None on any exception (a null in the column) *)
safe_float(x) == ParseFloat(ReplaceComma(Strip(x)))

(* pd.to_datetime(..., errors='coerce') of one cell *)
to_datetime(cell) == IF cell[1] = "ts" THEN Val(cell[2]) ELSE NaN

----------------------------------------------------------------------------
(* DataFrames: [columns |-> set of names, rows |-> sequence of records] *)

EmptyDF == [columns |-> {}, rows |-> <<>>]

(* df.empty: no rows or no columns *)
empty(d) == d.columns = {} \/ Len(d.rows) = 0

(* df[name] = vals: a column with one value per row *)
WithColumn(d, name, vals) ==
    [columns |-> d.columns \cup {name},
     rows |-> [i \in DOMAIN d.rows |->
                 [c \in d.columns \cup {name} |->
                    IF c = name THEN vals[i] ELSE d.rows[i][c]]]]

(* df[mask]: the rows whose index is in mask, in their order *)
Filter(d, mask) ==
    LET kept == SelectSeq([i \in DOMAIN d.rows |-> i], LAMBDA i : i \in mask)
    IN  [columns |-> d.columns, rows |-> [j \in DOMAIN kept |-> d.rows[kept[j]]]]

(* pd.read_csv(CSV_PATH, dtype=str, keep_default_na=False), app.py:30: every  *)
(* cell stays text; a row of the file is keyed by the header's names        *)
read_csv(f) == [columns |-> Range(f.header), rows |-> f.rows]

(* app.py:34-35: a header of 27 names without local_timestamp is renamed by position *)
Realign(f) ==
    IF "local_timestamp" \notin Range(f.header) /\ Len(f.header) = Len(EXPECTED_COLS)
    THEN [f EXCEPT !.header = EXPECTED_COLS,
                   !.rows = [i \in DOMAIN f.rows |->
                               [c \in Range(EXPECTED_COLS) |->
                                  f.rows[i][f.header[CHOOSE k \in DOMAIN EXPECTED_COLS :
                                                        EXPECTED_COLS[k] = c]]]]]
    ELSE f

(* (pd.Timestamp.now() - dob).dt.days // 365, app.py:47 *)
AgeOf(dob, t) ==
    IF notna(dob) THEN Val(((t - dob[2]) \div MinutesPerDay) \div YearDays) ELSE NaN

(* load_data, app.py:26-53, at clock t *)
load_data(f, t) ==
    IF f.status # "ok" THEN EmptyDF
    ELSE
      LET d0 == read_csv(Realign(f))
          HasCol(c) == c \in d0.columns
          d1 == WithColumn(d0, "is_fraud",
                  [i \in DOMAIN d0.rows |->
                     IF HasCol("is_fraud") THEN NormalizeFraud(d0.rows[i]["is_fraud"])
                     ELSE 0])
          d2 == WithColumn(d1, "local_timestamp",
                  [i \in DOMAIN d1.rows |->
                     IF HasCol("local_timestamp")
                     THEN to_datetime(d1.rows[i]["local_timestamp"]) ELSE None])
          d3 == IF HasCol("dob")
                THEN WithColumn(d2, "dob",
                       [i \in DOMAIN d2.rows |-> to_datetime(d2.rows[i]["dob"])])
                ELSE d2
          d4 == WithColumn(d3, "age",
                  [i \in DOMAIN d3.rows |->
                     IF HasCol("dob") THEN AgeOf(d3.rows[i]["dob"], t) ELSE None])
          d5 == WithColumn(d4, "merch_lat_f",
                  [i \in DOMAIN d4.rows |->
                     IF HasCol("merch_lat") THEN safe_float(d4.rows[i]["merch_lat"])
                     ELSE None])
      IN  WithColumn(d5, "merch_long_f",
            [i \in DOMAIN d5.rows |->
               IF HasCol("merch_long") THEN safe_float(d5.rows[i]["merch_long"])
               ELSE None])

----------------------------------------------------------------------------
(* What a query gives back *)

Ok(v) == [kind |-> "ok", val |-> v]
Raise(e) == [kind |-> "raise", val |-> e]
NoResult == [kind |-> "none", val |-> 0]

(* AtLeast with > for >=: a row exactly at the cutoff falls out of the window *)
AtLeastStrict(x, cutoff) == notna(x) /\ x[2] > cutoff

(* series >= cutoff, one element: False for NaT, and False for None in an    *)
(* object column                                                             *)
AtLeast(x, cutoff) == notna(x) /\ x[2] >= cutoff

(* df['is_fraud'] == 1 *)
FraudMask(d) == {i \in DOMAIN d.rows : d.rows[i]["is_fraud"] = 1}

(* Round2 that cuts the digits after the second decimal instead of rounding *)
Round2Truncating(num, den) == (10000 * num) \div den

(* round(x, 2) of x = 100 * num / den, in hundredths: the nearest, ties to even *)
Round2(num, den) ==
    LET q == (10000 * num) \div den
        r == (10000 * num) % den
    IN  IF 2 * r < den THEN q
        ELSE IF 2 * r > den THEN q + 1
        ELSE IF q % 2 = 0 THEN q ELSE q + 1

(* head that keeps one entry too many *)
headOneMore(s, n) == SubSeq(s, 1, Min(n + 1, Len(s)))

(* series.head(n) *)
head(s, n) ==
    IF n >= 0 THEN SubSeq(s, 1, Min(n, Len(s)))
    ELSE SubSeq(s, 1, Max(0, Len(s) + n))

(* how many entries of the sequence vals equal k *)
CountOf(vals, k) == Cardinality({i \in DOMAIN vals : vals[i] = k})

(* sort_values(ascending=False) with the default kind='quicksort', which is  *)
(* not stable: every ordering of the keys with non-increasing counts is a   *)
(* possible outcome, whatever order the keys came in (first seen for        *)
(* value_counts, ascending by key for groupby).                              *)
SortDescending(keys, vals) ==
    {s \in Perms(keys) :
        \A i \in 1..(Len(s) - 1) : CountOf(vals, s[i]) >= CountOf(vals, s[i + 1])}

(* series.value_counts().head(n): the entries <<key, count>> *)
ValueCountsHead(vals, n) ==
    {head([i \in DOMAIN s |-> <<s[i], CountOf(vals, s[i])>>], n) :
        s \in SortDescending(Range(vals), vals)}

Column(d, c) == [i \in DOMAIN d.rows |-> d.rows[i][c]]

(* fraud_count without the df.empty guard of app.py:58-59: df['is_fraud'] on   *)
(* the frame without columns raises KeyError                                 *)
fraud_countUnguarded(d, t, hours) ==
    IF "is_fraud" \notin d.columns THEN Raise("KeyError")
    ELSE Ok(Cardinality({i \in DOMAIN d.rows :
              /\ d.rows[i]["is_fraud"] = 1
              /\ notna(d.rows[i]["local_timestamp"])
              /\ d.rows[i]["local_timestamp"][2] >= t - hours * MinutesPerHour}))

(* get_fraud_count after its load, app.py:58-62 *)
fraud_count(d, t, hours) ==
    IF empty(d) THEN Ok(0)
    ELSE
      LET cutoff == t - hours * MinutesPerHour
          mask == {i \in FraudMask(d) : AtLeast(d.rows[i]["local_timestamp"], cutoff)}
      IN  Ok(Cardinality(mask))

(* get_fraud_ratio_5min after its load, app.py:66-74 *)
fraud_ratio_5min(d, t) ==
    IF empty(d) THEN Ok(0)
    ELSE
      LET cutoff == t - RatioWindowMinutes
          recent == Filter(d, {i \in DOMAIN d.rows :
                                  AtLeast(d.rows[i]["local_timestamp"], cutoff)})
      IN  IF empty(recent) THEN Ok(0)
          ELSE
            LET total == Len(recent.rows)
                frauds == Cardinality(FraudMask(recent))
            IN  Ok(Round2(frauds, total))

(* get_top_categories after its load, app.py:78-81: the possible returns *)
top_categories(d, n) ==
    IF empty(d) \/ "category" \notin d.columns THEN {Ok(<<>>)}
    ELSE
      {Ok([i \in DOMAIN top |-> [category |-> top[i][1], count |-> top[i][2]]]) :
          top \in ValueCountsHead(Column(Filter(d, FraudMask(d)), "category"), n)}

(* get_top_states after its load, app.py:116-120: the possible returns *)
top_states(d, n) ==
    IF empty(d) \/ "state" \notin d.columns THEN {Ok(<<>>)}
    ELSE
      {Ok([i \in DOMAIN top |-> [state |-> top[i][1], count |-> top[i][2]]]) :
          top \in ValueCountsHead(Column(Filter(d, FraudMask(d)), "state"), n)}

(* bins and labels, app.py:90-91 *)
bins == <<0, 25, 35, 45, 55, 120>>
labels == <<"<25", "25-34", "35-44", "45-54", "55+">>

(* pd.cut(..., right=False) of one age: the bin's index, 0 for no bin *)
Cut(age) ==
    IF notna(age) /\ \E i \in DOMAIN labels : bins[i] <= age[2] /\ age[2] < bins[i + 1]
    THEN CHOOSE i \in DOMAIN labels : bins[i] <= age[2] /\ age[2] < bins[i + 1]
    ELSE 0

(* age_distribution without reindex(labels, fill_value=0) on counts that     *)
(* list only the age groups that occur                                       *)
age_distributionNoReindex(d) ==
    LET fraud == SelectSeq(d.rows, LAMBDA r : r["is_fraud"] = 1)
        group == [i \in DOMAIN fraud |-> Cut(fraud[i]["age"])]
        all == [g \in DOMAIN labels |->
                  [age_group |-> labels[g], count |-> CountOf(group, g)]]
    IN  IF empty(d) \/ fraud = <<>> THEN Ok(<<>>)
        ELSE IF \E i \in DOMAIN fraud : fraud[i]["age"] = None THEN Raise("TypeError")
        ELSE Ok(SelectSeq(all, LAMBDA e : e.count > 0))

(* get_age_distribution after its load, app.py:85-94.  pd.cut on the object  *)
(* column of None that a missing dob leaves (app.py:49) compares None with  *)
(* the bin edges and raises TypeError.                                       *)
age_distribution(d) ==
    IF empty(d) \/ "age" \notin d.columns THEN Ok(<<>>)
    ELSE
      LET df_fraud == Filter(d, FraudMask(d))
      IN  IF empty(df_fraud) THEN Ok(<<>>)
          ELSE IF \E i \in DOMAIN df_fraud.rows : df_fraud.rows[i]["age"] = None
          THEN Raise("TypeError")
          ELSE
            LET group == [i \in DOMAIN df_fraud.rows |-> Cut(df_fraud.rows[i]["age"])]
            IN  Ok([g \in DOMAIN labels |->
                      [age_group |-> labels[g], count |-> CountOf(group, g)]])

(* get_top_merchant_locations after its load, app.py:98-112: the possible   *)
(* returns.  groupby on a column the frame does not have raises KeyError.   *)
top_merchant_locations(d, n) ==
    IF empty(d) THEN {Ok(<<>>)}
    ELSE
      LET df_fraud == Filter(d, FraudMask(d))
          df_coords == Filter(df_fraud,
                         {i \in DOMAIN df_fraud.rows :
                             /\ notna(df_fraud.rows[i]["merch_lat_f"])
                             /\ notna(df_fraud.rows[i]["merch_long_f"])})
      IN  IF empty(df_fraud) THEN {Ok(<<>>)}
          ELSE IF empty(df_coords) THEN {Ok(<<>>)}
          ELSE IF "merchant" \notin d.columns THEN {Raise("KeyError")}
          ELSE
            LET key == [i \in DOMAIN df_coords.rows |->
                          <<df_coords.rows[i]["merchant"],
                            df_coords.rows[i]["merch_lat_f"][2],
                            df_coords.rows[i]["merch_long_f"][2]>>]
            IN  {Ok(head([i \in DOMAIN s |->
                            [merchant |-> s[i][1], count |-> CountOf(key, s[i]),
                             merch_lat |-> s[i][2], merch_long |-> s[i][3]]], n)) :
                    s \in SortDescending(Range(key), key)}

(* the possible returns of query q with argument arg on frame d at clock t *)
Outcomes(q, arg, d, t) ==
    CASE q = "fraud_count" -> {fraud_count(d, t, arg)}
      [] q = "fraud_ratio_5min" -> {fraud_ratio_5min(d, t)}
      [] q = "top_categories" -> top_categories(d, arg)
      [] q = "age_distribution" -> {age_distribution(d)}
      [] q = "top_merchant_locations" -> top_merchant_locations(d, arg)
      [] q = "top_states" -> top_states(d, arg)

----------------------------------------------------------------------------
(* The datasets the model starts from *)

(* the clock at the start: day 20000 at 00:00 *)
Now0 == 20000 * MinutesPerDay

TsCell(m) == <<"ts", m>>
JunkCell == <<"junk", 0>>

(* the birth minute of somebody who turns `years` exactly at Now0 *)
BornYearsAgo(years) == Now0 - years * YearDays * MinutesPerDay

(* a row with every modelled field well-formed: a fraud of 3 minutes ago *)
BaseRow ==
    [is_fraud |-> <<"1">>, local_timestamp |-> TsCell(Now0 - 3),
     dob |-> TsCell(BornYearsAgo(30)), category |-> "grocery", state |-> "NY",
     merchant |-> "m1", merch_lat |-> <<"1", ".", "5">>, merch_long |-> <<"2">>]

(* rows that differ in the text of is_fraud *)
RawFraud ==
    { <<"1">>, <<"0">>, <<"1", ".", "0">>, <<"y", "e", "s">>, <<>>, <<"2">> }
FraudRows == {[BaseRow EXCEPT !.is_fraud = f] : f \in RawFraud}

(* rows on both sides of the 5-minute and 2-hour cutoffs, and without a time *)
WindowRows ==
    {[BaseRow EXCEPT !.local_timestamp = TsCell(Now0 - back)] :
        back \in {RatioWindowMinutes, RatioWindowMinutes + 1,
                  DefaultHours * MinutesPerHour, DefaultHours * MinutesPerHour + 1}}
    \cup {[BaseRow EXCEPT !.local_timestamp = JunkCell],
          [BaseRow EXCEPT !.is_fraud = <<"0">>, !.local_timestamp = JunkCell],
          [BaseRow EXCEPT !.is_fraud = <<"0">>]}

(* rows on both sides of the age bins' edges, born in the future, without a dob *)
AgeRows ==
    {[BaseRow EXCEPT !.dob = TsCell(BornYearsAgo(y) + late)] :
        y \in {25, 45, 120}, late \in {0, 1}}
    \cup {[BaseRow EXCEPT !.dob = TsCell(BornYearsAgo(y))] : y \in {35, 55}}
    \cup {[BaseRow EXCEPT !.dob = TsCell(Now0 + 1)],
          [BaseRow EXCEPT !.dob = JunkCell],
          [BaseRow EXCEPT !.is_fraud = <<"0">>]}

CategoryRows ==
    {[BaseRow EXCEPT !.category = c, !.is_fraud = f, !.local_timestamp = JunkCell] :
        c \in {"grocery", "travel", "fuel"}, f \in {<<"1">>, <<"0">>}}

StateRows ==
    {[BaseRow EXCEPT !.state = c, !.is_fraud = f] :
        c \in {"NY", "CA", "TX"}, f \in {<<"1">>, <<"0">>}}

MerchantRows ==
    {[BaseRow EXCEPT !.merchant = m, !.merch_lat = lat] :
        m \in {"m1", "m2"},
        lat \in {<<"1", ".", "5">>, <<" ", "1", ",", "5">>, <<"a", "b", "c">>}}
    \cup {[BaseRow EXCEPT !.is_fraud = <<"0">>]}

PlainRows == {BaseRow, [BaseRow EXCEPT !.is_fraud = <<"0">>]}

(* frauds of two categories, states and merchants, for rankings with ties *)
RankRows ==
    {BaseRow,
     [BaseRow EXCEPT !.category = "travel", !.state = "CA", !.merchant = "m2"],
     [BaseRow EXCEPT !.category = "fuel", !.state = "CA", !.merch_long = <<"3">>]}

RowFamilies == {FraudRows, WindowRows, AgeRows, CategoryRows, StateRows, MerchantRows}

(* the families small enough to take one row more *)
DeepFamilies == {PlainRows, RankRows}

(* the columns the loader and the queries read *)
UsedCols ==
    {"is_fraud", "local_timestamp", "dob", "category", "state", "merchant",
     "merch_lat", "merch_long"}

(* the text of column c in a row; the columns no query reads hold "x" *)
Cell(row, c) == IF c \in DOMAIN row THEN row[c] ELSE "x"

(* a file whose k-th column is named header[k] and holds the canonical column *)
(* layout[k] of each row                                                      *)
MkFile(header, layout, rows) ==
    [status |-> "ok", header |-> header,
     rows |-> [i \in DOMAIN rows |->
                 [c \in Range(header) |->
                    Cell(rows[i], layout[CHOOSE k \in DOMAIN header : header[k] = c])]]]

(* the canonical header without the columns in S *)
HeaderWithout(S) == SelectSeq(EXPECTED_COLS, LAMBDA c : c \notin S)

(* 27 columns under names that are not the canonical ones *)
LegacyHeader ==
    << "c01", "c02", "c03", "c04", "c05", "c06", "c07", "c08", "c09", "c10",
       "c11", "c12", "c13", "c14", "c15", "c16", "c17", "c18", "c19", "c20",
       "c21", "c22", "c23", "c24", "c25", "c26", "c27" >>

Absent == [status |-> "absent", header |-> <<>>, rows |-> <<>>]
Unreadable == [status |-> "unreadable", header |-> <<>>, rows |-> <<>>]

FullFiles ==
    UNION ({{MkFile(EXPECTED_COLS, EXPECTED_COLS, rows) : rows \in SeqsUpTo(F, MaxRows)} :
              F \in RowFamilies}
           \cup {{MkFile(EXPECTED_COLS, EXPECTED_COLS, rows) :
                    rows \in SeqsUpTo(F, MaxRows + 1)} : F \in DeepFamilies})

MissingColumnFiles ==
    {MkFile(HeaderWithout({c}), HeaderWithout({c}), rows) :
        c \in UsedCols, rows \in SeqsUpTo(PlainRows, MaxRows)}

LegacyFiles ==
    {MkFile(LegacyHeader, EXPECTED_COLS, rows) : rows \in SeqsUpTo(PlainRows, MaxRows)}

Files == {Absent, Unreadable} \cup FullFiles \cup MissingColumnFiles \cup LegacyFiles

(* the arguments the queries are called with *)
Hours == {0, 1, DefaultHours}
TopN == {0, 1, 2, DefaultN}

Queries ==
    {"fraud_count", "fraud_ratio_5min", "top_categories", "age_distribution",
     "top_merchant_locations", "top_states"}

NoReq == [q |-> "none", arg |-> 0]
NoHist == [seen |-> 0, tload |-> 0, tcomp |-> 0]

(* a frame kept in a module-level variable: a request that loads while       *)
(* another is in flight gets the file as the other one read it               *)
DatasetShared(p) ==
    IF \E o \in Procs \ {p} : pc[o] # "idle"
    THEN LET o == CHOOSE o \in Procs \ {p} : pc[o] # "idle"
             RECURSIVE At(_)
             At(k) == IF k = 0 THEN log.init
                      ELSE LET f == At(k - 1)
                               row == log.appended[k]
                           IN  IF f.status = "ok"
                               THEN [f EXCEPT !.rows =
                                       Append(f.rows, [c \in Range(f.header) |->
                                                         IF c \in DOMAIN row THEN row[c]
                                                         ELSE "x"])]
                               ELSE [status |-> "ok", header |-> EXPECTED_COLS,
                                     rows |-> << [c \in Range(EXPECTED_COLS) |->
                                                    IF c \in DOMAIN row THEN row[c]
                                                    ELSE "x"] >>]
         IN  At(hist[o].seen)
    ELSE file

(* what request p's load_data finds at CSV_PATH: the file as it is at that    *)
(* moment, read anew by every call (app.py:27-30)                            *)
Dataset(p) == file

----------------------------------------------------------------------------
(* Sequential use: each query function is one call, load and computation *)

Init ==
    /\ file \in Files
    /\ now = Now0
    /\ pc = [p \in Procs |-> "idle"]
    /\ req = [p \in Procs |-> NoReq]
    /\ df = [p \in Procs |-> EmptyDF]
    /\ res = [p \in Procs |-> NoResult]
    /\ hist = [p \in Procs |-> NoHist]
    /\ log = [init |-> file, appended |-> <<>>]

(* request p calls query q with arg and gets its return *)
Call(p, q, arg) ==
    /\ pc[p] = "idle"
    /\ \E r \in Outcomes(q, arg, load_data(Dataset(p), now), now) :
          res' = [res EXCEPT ![p] = r]
    /\ pc' = [pc EXCEPT ![p] = "done"]
    /\ req' = [req EXCEPT ![p] = [q |-> q, arg |-> arg]]
    /\ hist' = [hist EXCEPT ![p] =
                  [seen |-> Len(log.appended), tload |-> now, tcomp |-> now]]
    /\ UNCHANGED <<file, now, df, log>>

get_fraud_count(p) == \E hours \in Hours : Call(p, "fraud_count", hours)
get_fraud_ratio_5min(p) == Call(p, "fraud_ratio_5min", 0)
get_top_categories(p) == \E n \in TopN : Call(p, "top_categories", n)
get_age_distribution(p) == Call(p, "age_distribution", 0)
get_top_merchant_locations(p) == \E n \in TopN : Call(p, "top_merchant_locations", n)
get_top_states(p) == \E n \in TopN : Call(p, "top_states", n)

(* the caller takes the result; nothing of the request is kept *)
Return(p) ==
    /\ pc[p] = "done"
    /\ pc' = [pc EXCEPT ![p] = "idle"]
    /\ req' = [req EXCEPT ![p] = NoReq]
    /\ res' = [res EXCEPT ![p] = NoResult]
    /\ hist' = [hist EXCEPT ![p] = NoHist]
    /\ df' = [df EXCEPT ![p] = EmptyDF]
    /\ UNCHANGED <<file, now, log>>

Next ==
    \/ get_fraud_count(1)
    \/ get_fraud_ratio_5min(1)
    \/ get_top_categories(1)
    \/ get_age_distribution(1)
    \/ get_top_merchant_locations(1)
    \/ get_top_states(1)
    \/ Return(1)

Spec == Init /\ [][Next]_vars

----------------------------------------------------------------------------
(* Concurrent use: requests are served in parallel while another program     *)
(* appends rows to the file.  A request first loads (load_data) and then     *)
(* computes on the frame it loaded.                                          *)

(* the row the other program appends: a fraud of another category, stamped *)
(* a minute after the start                                                 *)
AppendRows ==
    {[BaseRow EXCEPT !.category = "travel", !.local_timestamp = TsCell(Now0 + 1)]}

(* the file after row is appended; the first append creates the file *)
AppendTo(f, row) ==
    IF f.status = "ok"
    THEN [f EXCEPT !.rows = Append(f.rows, [c \in Range(f.header) |-> Cell(row, c)])]
    ELSE MkFile(EXPECTED_COLS, EXPECTED_COLS, <<row>>)

(* the file after the first k appends of the log *)
RECURSIVE FileAt(_)
FileAt(k) == IF k = 0 THEN log.init ELSE AppendTo(FileAt(k - 1), log.appended[k])

ConcArg(q) == IF q = "fraud_count" THEN DefaultHours ELSE 1

InitConc ==
    /\ file \in {Absent, MkFile(EXPECTED_COLS, EXPECTED_COLS, <<BaseRow>>)}
    /\ now = Now0
    /\ pc = [p \in Procs |-> "idle"]
    /\ req = [p \in Procs |-> NoReq]
    /\ df = [p \in Procs |-> EmptyDF]
    /\ res = [p \in Procs |-> NoResult]
    /\ hist = [p \in Procs |-> NoHist]
    /\ log = [init |-> file, appended |-> <<>>]

(* request p enters query q: df = load_data() *)
Load(p, q) ==
    /\ pc[p] = "idle"
    /\ pc' = [pc EXCEPT ![p] = "loaded"]
    /\ req' = [req EXCEPT ![p] = [q |-> q, arg |-> ConcArg(q)]]
    /\ df' = [df EXCEPT ![p] = load_data(Dataset(p), now)]
    /\ hist' = [hist EXCEPT ![p] =
                  [seen |-> Len(log.appended), tload |-> now, tcomp |-> 0]]
    /\ UNCHANGED <<file, now, res, log>>

(* request p computes its query on the frame it loaded *)
Compute(p) ==
    /\ pc[p] = "loaded"
    /\ \E r \in Outcomes(req[p].q, req[p].arg, df[p], now) :
          res' = [res EXCEPT ![p] = r]
    /\ pc' = [pc EXCEPT ![p] = "done"]
    /\ hist' = [hist EXCEPT ![p].tcomp = now]
    /\ UNCHANGED <<file, now, req, df, log>>

(* another program appends a row to the file *)
AppendRow(row) ==
    /\ Len(log.appended) < MaxAppends
    /\ file' = AppendTo(file, row)
    /\ log' = [log EXCEPT !.appended = Append(@, row)]
    /\ UNCHANGED <<now, pc, req, df, res, hist>>

(* time passes *)
Tick ==
    /\ now < Now0 + MaxTicks
    /\ now' = now + 1
    /\ UNCHANGED <<file, pc, req, df, res, hist, log>>

NextConc ==
    \/ \E p \in Procs, q \in Queries : Load(p, q)
    \/ \E p \in Procs : Compute(p)
    \/ \E p \in Procs : Return(p)
    \/ \E row \in AppendRows : AppendRow(row)
    \/ Tick

SpecConc == InitConc /\ [][NextConc]_vars

----------------------------------------------------------------------------
(* Vocabulary of the properties *)

Done(p) == pc[p] = "done"
Asked(p, q) == Done(p) /\ req[p].q = q

(* the file request p loaded, and the frame load_data made of it *)
LoadedFile(p) == FileAt(hist[p].seen)
Frame(p) == load_data(LoadedFile(p), hist[p].tload)

(* the canonical columns the loaded file has, after the positional repair *)
ColumnsOf(f) == Range(Realign(f).header)

TopQueries == {"top_categories", "top_states", "top_merchant_locations"}

(* the rows a ranking counts, and the group of such a row *)
Ranked(q, d) ==
    IF q = "top_merchant_locations"
    THEN {i \in FraudMask(d) : d.rows[i]["merch_lat_f"][1] = "val"
                              /\ d.rows[i]["merch_long_f"][1] = "val"}
    ELSE FraudMask(d)
GroupOfRow(q, r) ==
    CASE q = "top_categories" -> r["category"]
      [] q = "top_states" -> r["state"]
      [] q = "top_merchant_locations" ->
            <<r["merchant"], r["merch_lat_f"][2], r["merch_long_f"][2]>>
GroupOfEntry(q, e) ==
    CASE q = "top_categories" -> e.category
      [] q = "top_states" -> e.state
      [] q = "top_merchant_locations" -> <<e.merchant, e.merch_lat, e.merch_long>>
GroupColumn(q) ==
    CASE q = "top_categories" -> "category"
      [] q = "top_states" -> "state"
      [] q = "top_merchant_locations" -> "merchant"
Groups(q, d) == {GroupOfRow(q, d.rows[i]) : i \in Ranked(q, d)}
GroupSize(q, d, g) == Cardinality({i \in Ranked(q, d) : GroupOfRow(q, d.rows[i]) = g})
FirstSeen(q, d, g) ==
    CHOOSE i \in Ranked(q, d) :
        /\ GroupOfRow(q, d.rows[i]) = g
        /\ \A j \in Ranked(q, d) : GroupOfRow(q, d.rows[j]) = g => i <= j
Returned(q, v) == {GroupOfEntry(q, v[i]) : i \in DOMAIN v}

Counts(v) == [i \in DOMAIN v |-> v[i].count]

----------------------------------------------------------------------------
(* C1: with the dataset file absent or unreadable, load_data returns the     *)
(* empty frame and get_fraud_count returns 0, get_fraud_ratio_5min 0.0, and  *)
(* get_top_categories, get_top_merchant_locations and get_top_states the     *)
(* empty list, for every n and every window; none raises.                    *)
C1_NoFileZeroValues ==
    \A p \in Procs :
        (Done(p) /\ LoadedFile(p).status # "ok") =>
            /\ empty(Frame(p))
            /\ res[p].kind = "ok"
            /\ req[p].q \in {"fraud_count", "fraud_ratio_5min"} => res[p].val = 0
            /\ req[p].q \in TopQueries => res[p].val = <<>>

C1_Witness ==
    /\ file.status = "absent"
    /\ Asked(1, "top_merchant_locations") /\ req[1].arg = DefaultN
    /\ res[1] = Ok(<<>>)

C3_WindowedCount ==
    \A p \in Procs :
        Done(p) =>
            LET d == Frame(p)
                q == req[p].q
                Timed(i, cutoff) == /\ d.rows[i]["local_timestamp"][1] = "val"
                                    /\ d.rows[i]["local_timestamp"][2] >= cutoff
                In5 == {i \in DOMAIN d.rows : Timed(i, hist[p].tcomp - 5)}
                total == SumSeq(Counts(res[p].val))
            IN  /\ q = "fraud_count" =>
                      res[p] = Ok(Cardinality(
                          {i \in DOMAIN d.rows :
                              /\ d.rows[i]["is_fraud"] = 1
                              /\ Timed(i, hist[p].tcomp - 60 * req[p].arg)}))
                /\ (q = "fraud_ratio_5min" /\ In5 = {}) => res[p] = Ok(0)
                /\ (q \in TopQueries /\ ~empty(d)
                      /\ GroupColumn(q) \in d.columns
                      /\ req[p].arg >= Cardinality(Groups(q, d))) =>
                      /\ res[p].kind = "ok"
                      /\ total = Cardinality(Ranked(q, d))
                /\ (q = "age_distribution" /\ "dob" \in ColumnsOf(LoadedFile(p))) =>
                      /\ res[p].kind = "ok"
                      /\ total = Cardinality({i \in FraudMask(d) : Cut(d.rows[i]["age"]) # 0})

(* one fraud in the 2-hour window is counted, one without a time is not *)
C3_Witness ==
    /\ Asked(1, "fraud_count") /\ req[1].arg = DefaultHours
    /\ res[1] = Ok(1)
    /\ Cardinality(FraudMask(Frame(1))) = 2
    /\ \E i \in FraudMask(Frame(1)) : Frame(1).rows[i]["local_timestamp"] = NaN
    /\ \E i \in FraudMask(Frame(1)) :
          Frame(1).rows[i]["local_timestamp"] = Val(now - DefaultHours * MinutesPerHour)

(* the original C4: the ratio is exactly 100 * frauds / rows of the window, *)
(* 0.0 for an empty window, within [0, 100]                                  *)
C4_ExactRatio ==
    \A p \in Procs :
        Asked(p, "fraud_ratio_5min") =>
            LET d == Frame(p)
                window == {i \in DOMAIN d.rows :
                             /\ d.rows[i]["local_timestamp"][1] = "val"
                             /\ d.rows[i]["local_timestamp"][2] >= hist[p].tcomp - 5}
                frauds == Cardinality(window \cap FraudMask(d))
            IN  /\ res[p].kind = "ok"
                /\ window = {} => res[p].val = 0
                /\ window # {} => res[p].val * Cardinality(window) = 10000 * frauds
                /\ 0 <= res[p].val /\ res[p].val <= 10000

(* C4, amended: get_fraud_ratio_5min returns exactly 0.0 when no row has    *)
(* local_timestamp >= now - 5 minutes, and otherwise 100 * frauds / rows of *)
(* the window rounded to 2 decimal places, a value in [0.0, 100.0]; it      *)
(* never divides by zero.                                                    *)
C4_RoundedRatio ==
    \A p \in Procs :
        Asked(p, "fraud_ratio_5min") =>
            LET d == Frame(p)
                window == {i \in DOMAIN d.rows :
                             /\ d.rows[i]["local_timestamp"][1] = "val"
                             /\ d.rows[i]["local_timestamp"][2] >= hist[p].tcomp - 5}
                frauds == Cardinality(window \cap FraudMask(d))
                off == res[p].val * Cardinality(window) - 10000 * frauds
            IN  /\ res[p].kind = "ok"
                /\ window = {} => res[p].val = 0
                /\ window # {} => (2 * off <= Cardinality(window)
                                   /\ 2 * off >= 0 - Cardinality(window))
                /\ 0 <= res[p].val /\ res[p].val <= 10000

(* two frauds among three rows of the window: 66.67 *)
C4_Witness ==
    /\ Asked(1, "fraud_ratio_5min")
    /\ Len(Frame(1).rows) = 3
    /\ Cardinality(FraudMask(Frame(1))) = 2
    /\ res[1] = Ok(6667)

(* what each query reads of the file *)
DependsOn(q) ==
    CASE q = "fraud_count" -> {"is_fraud", "local_timestamp"}
      [] q = "fraud_ratio_5min" -> {"is_fraud", "local_timestamp"}
      [] q = "top_categories" -> {"is_fraud", "category"}
      [] q = "age_distribution" -> {"is_fraud", "dob"}
      [] q = "top_merchant_locations" ->
            {"is_fraud", "merchant", "merch_lat", "merch_long"}
      [] q = "top_states" -> {"is_fraud", "state"}

(* C5: when an expected column is missing from a non-empty dataset, loading *)
(* succeeds and every query that depends on the missing column returns its  *)
(* zero-value (0, 0.0, the empty sequence) instead of raising.               *)
C5_MissingColumnZeroValue ==
    \A p \in Procs :
        LET f == LoadedFile(p)
            missing == UsedCols \ ColumnsOf(f)
        IN  (Done(p) /\ f.status = "ok" /\ f.rows # <<>>
                /\ DependsOn(req[p].q) \cap missing # {}) =>
               /\ Len(Frame(p).rows) = Len(f.rows)
               /\ res[p].kind = "ok"
               /\ req[p].q \in {"fraud_count", "fraud_ratio_5min"} => res[p].val = 0
               /\ req[p].q \notin {"fraud_count", "fraud_ratio_5min"} => res[p].val = <<>>

(* the text of is_fraud in row i of the loaded file *)
RawFraudOf(p, i) == Realign(LoadedFile(p)).rows[i]["is_fraud"]

(* v is the number the first run of decimal digits of raw spells, 0 without *)
(* a digit                                                                   *)
IsFirstDigitRun(raw, v) ==
    IF \A k \in DOMAIN raw : raw[k] \notin Digits THEN v = 0
    ELSE \E a \in DOMAIN raw : \E b \in a..Len(raw) :
            /\ \A k \in 1..(a - 1) : raw[k] \notin Digits
            /\ \A k \in a..b : raw[k] \in Digits
            /\ b = Len(raw) \/ raw[b + 1] \notin Digits
            /\ v = DigitsToInt(SubSeq(raw, a, b))

(* the original C6: after load_data every row's is_fraud is 0 or 1 whatever *)
(* the raw text was, and no row is dropped                                   *)
C6_FraudFlagZeroOrOne ==
    \A p \in Procs :
        (Done(p) /\ LoadedFile(p).status = "ok") =>
            /\ Len(Frame(p).rows) = Len(LoadedFile(p).rows)
            /\ \A i \in DOMAIN Frame(p).rows : Frame(p).rows[i]["is_fraud"] \in {0, 1}

(* C6, amended: after load_data every row's is_fraud is a non-negative       *)
(* integer: the first run of decimal digits of the raw value read as a      *)
(* number ("1.0" gives 1, "0" gives 0, "2" gives 2), and 0 when the raw     *)
(* value has no digit ("yes", empty); it is 0 or 1 only when that run       *)
(* spells 0 or 1.  No row is dropped: the loaded row count is the file's.   *)
C6_FraudFlagFirstDigitRun ==
    \A p \in Procs :
        (Done(p) /\ LoadedFile(p).status = "ok") =>
            LET d == Frame(p)
            IN  /\ Len(d.rows) = Len(LoadedFile(p).rows)
                /\ \A i \in DOMAIN d.rows :
                      LET v == d.rows[i]["is_fraud"]
                      IN  IF "is_fraud" \in ColumnsOf(LoadedFile(p))
                          THEN /\ IsFirstDigitRun(RawFraudOf(p, i), v)
                               /\ RawFraudOf(p, i) = <<"1", ".", "0">> => v = 1
                               /\ RawFraudOf(p, i) = <<"2">> => v = 2
                               /\ RawFraudOf(p, i) \in {<<"0">>, <<"y", "e", "s">>, <<>>}
                                     => v = 0
                          ELSE v = 0

(* "1.0" is loaded as 1 and "yes" as 0, and both rows are there *)
C6_Witness ==
    /\ Done(1) /\ file.status = "ok" /\ Len(file.rows) = 2
    /\ "is_fraud" \in Range(file.header)
    /\ file.rows[1]["is_fraud"] = <<"1", ".", "0">>
    /\ file.rows[2]["is_fraud"] = <<"y", "e", "s">>
    /\ Frame(1).rows[1]["is_fraud"] = 1
    /\ Frame(1).rows[2]["is_fraud"] = 0

(* C7: for every n >= 0, get_top_categories(n) and get_top_states(n) return *)
(* at most n entries with counts that never increase; each entry's count is *)
(* the number of fraud rows of its category or state, and no group left out *)
(* has a count greater than the smallest count returned.                     *)
C7_TopNByCount ==
    \A p \in Procs :
        (Done(p) /\ req[p].q \in {"top_categories", "top_states"}) =>
            LET q == req[p].q
                d == Frame(p)
                v == res[p].val
            IN  /\ res[p].kind = "ok"
                /\ Len(v) <= req[p].arg
                /\ \A i \in 1..(Len(v) - 1) : v[i].count >= v[i + 1].count
                /\ (v # <<>> \/ (~empty(d) /\ GroupColumn(q) \in d.columns)) =>
                      /\ \A i \in DOMAIN v :
                            v[i].count = GroupSize(q, d, GroupOfEntry(q, v[i]))
                      /\ \A g \in Groups(q, d) \ Returned(q, v) :
                            \A i \in DOMAIN v : GroupSize(q, d, g) <= v[i].count

(* of a category with two frauds and one with one, the top 1 is the first *)
C7_Witness ==
    /\ Asked(1, "top_categories") /\ req[1].arg = 1
    /\ res[1] = Ok(<< [category |-> "grocery", count |-> 2] >>)
    /\ GroupSize("top_categories", Frame(1), "travel") = 1

(* C8: whenever a fraud row exists, get_age_distribution counts each fraud  *)
(* row with a non-null age in exactly one bin, [0,25) [25,35) [35,45)       *)
(* [45,55) [55,120); null, negative and >= 120 ages are in no bin, and the  *)
(* five counts sum to the number of fraud rows with an age in [0,120).  Age *)
(* is floor(days between now and dob / 365).                                 *)
C8_AgeBins ==
    \A p \in Procs :
        LET d == Frame(p)
            f == Realign(LoadedFile(p))
            Years(i) ==
                IF "dob" \in Range(f.header) /\ f.rows[i]["dob"][1] = "ts"
                THEN Val(((hist[p].tload - f.rows[i]["dob"][2]) \div 1440) \div 365)
                ELSE NaN
            Between(lo, hi) ==
                Cardinality({i \in FraudMask(d) :
                               Years(i)[1] = "val" /\ lo <= Years(i)[2] /\ Years(i)[2] < hi})
        IN  (Asked(p, "age_distribution") /\ FraudMask(d) # {}) =>
               /\ res[p].kind = "ok"
               /\ Counts(res[p].val) = << Between(0, 25), Between(25, 35), Between(35, 45),
                                          Between(45, 55), Between(55, 120) >>
               /\ SumSeq(Counts(res[p].val)) = Between(0, 120)

(* the original C9: among groups with equal counts a ranking puts first the *)
(* one whose first fraud row comes earlier in the file, so on a tie across  *)
(* the cut at n the groups returned are the first-seen ones                  *)
C9_TiesFirstSeen ==
    \A p \in Procs :
        LET q == req[p].q
            d == Frame(p)
            v == res[p].val
            Before(g, h) ==
                \/ GroupSize(q, d, g) > GroupSize(q, d, h)
                \/ /\ GroupSize(q, d, g) = GroupSize(q, d, h)
                   /\ FirstSeen(q, d, g) < FirstSeen(q, d, h)
        IN  (Done(p) /\ q \in TopQueries /\ res[p].kind = "ok"
                /\ ~empty(d) /\ GroupColumn(q) \in d.columns) =>
               /\ \A i, j \in DOMAIN v :
                     i < j => Before(GroupOfEntry(q, v[i]), GroupOfEntry(q, v[j]))
               /\ \A g \in Groups(q, d) \ Returned(q, v) :
                     \A i \in DOMAIN v : Before(GroupOfEntry(q, v[i]), g)

(* C10: queries share no state and nothing is cached: in any interleaving   *)
(* of queries and appends, a query's result is its function applied to the  *)
(* file as it was at that query's own load (and the clock), whatever other  *)
(* queries ran before or meanwhile; a query that starts after an append has *)
(* completed reflects the appended rows, and no query changes the file.     *)
C10_ResultOfOwnLoad ==
    /\ file = FileAt(Len(log.appended))
    /\ \A p \in Procs :
          /\ pc[p] = "loaded" =>
                /\ df[p] = Frame(p)
                /\ LoadedFile(p).status = "ok" =>
                      Len(df[p].rows) = Len(log.init.rows) + hist[p].seen
          /\ pc[p] = "done" =>
                res[p] \in Outcomes(req[p].q, req[p].arg, Frame(p), hist[p].tcomp)
          /\ pc[p] = "idle" => (df[p] = EmptyDF /\ res[p] = NoResult)

(* request 1 loaded before the append and request 2 after it; both are done *)
(* and each counts the frauds of its own load                                *)
C10_Witness ==
    /\ Asked(1, "fraud_count") /\ Asked(2, "fraud_count")
    /\ hist[1].seen = 0 /\ hist[2].seen = 1
    /\ hist[2].tcomp < hist[1].tcomp
    /\ res[1] = Ok(1) /\ res[2] = Ok(2)

====
